---------------------------- MODULE Spec2Model ----------------------------
(***************************************************************************)
(* A model of atest's command line translator (atest/cli_translator.py).   *)
(*                                                                         *)
(* A Python string is modelled as a sequence of one-character strings, so  *)
(* that startswith, "in", commonprefix, join and the regular expressions   *)
(* are computed character by character.  A word that the program only     *)
(* ever handles whole (a fixed literal such as "AndroidTest.xml" or        *)
(* "--test-info") is written as one element.                               *)
(***************************************************************************)
EXTENDS Integers, Sequences, FiniteSets, TLC

VARIABLES
    stage,          \* position of the unit under analysis: "input" or "done"
    ref,            \* the argument of _get_test_reference_types
    ref_types,      \* the list _get_test_reference_types returned
    test_infos,     \* a list of TestInfo: the argument of _flatten_by_module
                    \* and of _generate_run_commands
    flat,           \* the list _flatten_by_module returned
    module_info,    \* self.module_info, the loaded module-info.json
    test_info,      \* the argument of _parse_build_targets
    option_tags,    \* the option elements of the config file of test_info
    targets,        \* what _parse_build_targets returned or raised
    debug,          \* logging.getLogger().isEnabledFor(logging.DEBUG)
    run_commands,   \* the list _generate_run_commands returned
    tests,          \* the argument of translate
    files,          \* the files of the file system, by absolute path
    pc,             \* where translate is: "loop", "lookup", "raw_input",
                    \* "flatten", "build", "run", "returned", "raised", "hung"
    idx,            \* the position in tests of the loop of translate
    kinds,          \* possible_reference_types of tests[idx]
    kpos,           \* the position in kinds of the loop of _get_test_info
    waiting,        \* the tests printed by the _extract_test_path that waits
    error,          \* the exception translate raised
    calls,          \* the strategies invoked so far, with their input
    warnings,       \* the "unsupported" warnings logged so far
    steps,          \* the aggregation steps of translate executed so far
    walk_start,     \* the argument of _find_parent_module_dir
    walk_outcome    \* what _find_parent_module_dir returned or raised

classifyVars == <<ref, ref_types>>
flattenVars == <<test_infos, flat>>
targetVars == <<module_info, test_info, option_tags, targets>>
runVars == <<debug, run_commands>>
lookupVars == <<pc, idx, kinds, kpos, waiting, error, calls, warnings, steps>>
translateVars == <<tests, files, lookupVars>>
walkVars == <<walk_start, walk_outcome>>
vars ==
    <<stage, classifyVars, flattenVars, targetVars, runVars, translateVars,
      walkVars>>

\* An optional value: None, or Some(x).  Python's None is the empty tuple.
None == <<>>
Some(x) == <<x>>

(***************************************************************************)
(* Bounds                                                                  *)
(***************************************************************************)
MaxRefLen == 3
MaxInfos == 3
MaxOptions == 2
MaxTests == 3

(***************************************************************************)
(* Strings                                                                 *)
(***************************************************************************)
\* All sequences over S of length at most n.
SeqsUpTo(S, n) == UNION {[1..m -> S] : m \in 0..n}

\* str.startswith(prefix)
StartsWith(s, p) == Len(s) >= Len(p) /\ SubSeq(s, 1, Len(p)) = p

\* "sub in s" for strings: sub occurs in s as a contiguous substring.
IsSubstring(sub, s) ==
    \E b \in 1..(Len(s) + 1) :
        /\ b + Len(sub) - 1 <= Len(s)
        /\ SubSeq(s, b, b + Len(sub) - 1) = sub

(***************************************************************************)
(* REFERENCE_TYPE and the classifier                                       *)
(***************************************************************************)
REFERENCE_TYPE ==
    <<"MODULE", "CLASS", "QUALIFIED_CLASS", "MODULE_CLASS", "PACKAGE",
      "MODULE_PACKAGE", "FILE_PATH", "INTEGRATION", "SUITE">>

\* A classifier that tests ':' before '/'.
Mutant_get_test_reference_types_colon_first(r) ==
    IF StartsWith(r, <<".">>) THEN <<"FILE_PATH">>
    ELSE IF IsSubstring(<<":">>, r) THEN
        IF IsSubstring(<<".">>, r) THEN <<"MODULE_CLASS", "MODULE_PACKAGE">>
        ELSE <<"MODULE_CLASS">>
    ELSE IF IsSubstring(<<"/">>, r) THEN
        IF StartsWith(r, <<"/">>) \/ IsSubstring(<<".">>, r)
        THEN <<"FILE_PATH">>
        ELSE <<"FILE_PATH", "INTEGRATION">>
    ELSE IF IsSubstring(<<".">>, r) THEN
        <<"FILE_PATH", "QUALIFIED_CLASS", "PACKAGE">>
    ELSE <<"INTEGRATION", "MODULE", "CLASS">>

\* A classifier that forgets MODULE_PACKAGE for "module:pkg.Class".
Mutant_get_test_reference_types_no_package(r) ==
    IF StartsWith(r, <<".">>) THEN <<"FILE_PATH">>
    ELSE IF IsSubstring(<<"/">>, r) THEN
        IF StartsWith(r, <<"/">>) \/ IsSubstring(<<".">>, r)
        THEN <<"FILE_PATH">>
        ELSE <<"FILE_PATH", "INTEGRATION">>
    ELSE IF IsSubstring(<<":">>, r) THEN <<"MODULE_CLASS">>
    ELSE IF IsSubstring(<<".">>, r) THEN
        <<"FILE_PATH", "QUALIFIED_CLASS", "PACKAGE">>
    ELSE <<"INTEGRATION", "MODULE", "CLASS">>

_get_test_reference_types(r) ==
    IF StartsWith(r, <<".">>) THEN <<"FILE_PATH">>
    ELSE IF IsSubstring(<<"/">>, r) THEN
        IF StartsWith(r, <<"/">>) \/ IsSubstring(<<".">>, r)
        THEN <<"FILE_PATH">>
        ELSE <<"FILE_PATH", "INTEGRATION">>
    ELSE IF IsSubstring(<<":">>, r) THEN
        IF IsSubstring(<<".">>, r) THEN <<"MODULE_CLASS", "MODULE_PACKAGE">>
        ELSE <<"MODULE_CLASS">>
    ELSE IF IsSubstring(<<".">>, r) THEN
        <<"FILE_PATH", "QUALIFIED_CLASS", "PACKAGE">>
    ELSE <<"INTEGRATION", "MODULE", "CLASS">>

(***************************************************************************)
(* Specification of the classifier alone: every string over RefChars of    *)
(* length at most MaxRefLen is classified.                                 *)
(***************************************************************************)
RefChars == {".", "/", ":", "a"}

IdleClassify == ref = <<>> /\ ref_types = None
IdleFlatten == test_infos = <<>> /\ flat = <<>>
IdleTargets ==
    /\ module_info = <<>> /\ test_info = None
    /\ option_tags = <<>> /\ targets = None
IdleRun == debug = FALSE /\ run_commands = <<>>
IdleLookup ==
    /\ idx = 1 /\ kinds = <<>> /\ kpos = 0 /\ waiting = None
    /\ error = None /\ calls = <<>> /\ warnings = <<>> /\ steps = {}
IdleTranslate == tests = <<>> /\ files = {} /\ pc = "idle" /\ IdleLookup
IdleWalk == walk_start = <<>> /\ walk_outcome = None

InitClassify ==
    /\ stage = "input"
    /\ ref \in SeqsUpTo(RefChars, MaxRefLen)
    /\ ref_types = None
    /\ IdleFlatten /\ IdleTargets /\ IdleRun /\ IdleTranslate /\ IdleWalk

Classify ==
    /\ stage = "input"
    /\ ref_types' = _get_test_reference_types(ref)
    /\ stage' = "done"
    /\ UNCHANGED <<ref, flattenVars, targetVars, runVars, translateVars,
                   walkVars>>

NextClassify == Classify

SpecClassify == InitClassify /\ [][NextClassify]_vars

HasDot(r) == \E n \in 1..Len(r) : r[n] = "."
HasSlash(r) == \E n \in 1..Len(r) : r[n] = "/"
HasColon(r) == \E n \in 1..Len(r) : r[n] = ":"
LeadingDot(r) == Len(r) > 0 /\ r[1] = "."
LeadingSlash(r) == Len(r) > 0 /\ r[1] = "/"

\* C1: every string (the empty one included) is classified by the first
\* matching rule of the decision table: leading '.' -> [FILE_PATH]; '/' ->
\* [FILE_PATH] when it leads or a '.' is present, else [FILE_PATH,
\* INTEGRATION]; ':' -> [MODULE_CLASS, MODULE_PACKAGE] with a '.', else
\* [MODULE_CLASS]; '.' -> [FILE_PATH, QUALIFIED_CLASS, PACKAGE]; otherwise
\* [INTEGRATION, MODULE, CLASS].  SUITE is never returned.
C1_DecisionTable ==
    stage = "done" =>
        /\ ref_types \in Seq({REFERENCE_TYPE[n] : n \in 1..8})
        /\ LeadingDot(ref) => ref_types = <<"FILE_PATH">>
        /\ (~LeadingDot(ref) /\ HasSlash(ref)
              /\ (LeadingSlash(ref) \/ HasDot(ref)))
            => ref_types = <<"FILE_PATH">>
        /\ (~LeadingDot(ref) /\ HasSlash(ref)
              /\ ~LeadingSlash(ref) /\ ~HasDot(ref))
            => ref_types = <<"FILE_PATH", "INTEGRATION">>
        /\ (~LeadingDot(ref) /\ ~HasSlash(ref) /\ HasColon(ref) /\ HasDot(ref))
            => ref_types = <<"MODULE_CLASS", "MODULE_PACKAGE">>
        /\ (~HasSlash(ref) /\ HasColon(ref) /\ ~HasDot(ref))
            => ref_types = <<"MODULE_CLASS">>
        /\ (~LeadingDot(ref) /\ ~HasSlash(ref) /\ ~HasColon(ref) /\ HasDot(ref))
            => ref_types = <<"FILE_PATH", "QUALIFIED_CLASS", "PACKAGE">>
        /\ (~HasSlash(ref) /\ ~HasColon(ref) /\ ~HasDot(ref))
            => ref_types = <<"INTEGRATION", "MODULE", "CLASS">>

\* The empty string has been classified, by the default rule.
C1_Witness ==
    stage = "done" /\ ref = <<>> /\ ref_types = <<"INTEGRATION", "MODULE", "CLASS">>

\* C2 as stated: every string holding both ':' and '.' is classified
\* [MODULE_CLASS, MODULE_PACKAGE].
C2_Original ==
    (stage = "done" /\ HasColon(ref) /\ HasDot(ref))
        => ref_types = <<"MODULE_CLASS", "MODULE_PACKAGE">>

\* C2 amended: every string holding both ':' and '.' that neither starts
\* with '.' nor holds a '/' is classified [MODULE_CLASS, MODULE_PACKAGE].
C2_Amended ==
    (stage = "done" /\ HasColon(ref) /\ HasDot(ref)
        /\ ~LeadingDot(ref) /\ ~HasSlash(ref))
        => ref_types = <<"MODULE_CLASS", "MODULE_PACKAGE">>

\* "a:." has been classified.
C2_Witness ==
    stage = "done" /\ ref = <<"a", ":", ".">>
        /\ ref_types = <<"MODULE_CLASS", "MODULE_PACKAGE">>

(***************************************************************************)
(* TestInfo and _flatten_by_module                                         *)
(***************************************************************************)
\* The namedtuple TestInfo; every field is None or Some(value).
TestInfo(rel_config, module_name, integrated_name, filters) ==
    [rel_config |-> rel_config, module_name |-> module_name,
     integrated_name |-> integrated_name, filters |-> filters]

\* Python truth of an optional string / an optional set.
TruthyStr(o) == o # None /\ o[1] # <<>>
TruthySet(o) == o # None /\ o[1] # {}

MODULE_CONFIG == <<"AndroidTest.xml">>

\* The loop over one group that treats an unrestricted member as an empty
\* filter set and goes on to the next member.
RECURSIVE MutantMergeGroupNoBreak(_, _, _, _, _)
MutantMergeGroupNoBreak(module, group, n, filters, rel_config) ==
    IF n > Len(group)
    THEN TestInfo(rel_config, module, None, Some(filters))
    ELSE IF ~TruthySet(group[n].filters)
    THEN MutantMergeGroupNoBreak(module, group, n + 1, filters,
                                 group[n].rel_config)
    ELSE MutantMergeGroupNoBreak(module, group, n + 1,
                                 filters \cup group[n].filters[1],
                                 group[n].rel_config)

\* Lines 519-528: the loop over one group, at its n-th member, with the
\* filters and rel_config gathered so far.
RECURSIVE MergeGroup(_, _, _, _, _)
MergeGroup(module, group, n, filters, rel_config) ==
    IF n > Len(group)
    THEN TestInfo(rel_config, module, None, Some(filters))
    ELSE IF ~TruthySet(group[n].filters)
    THEN TestInfo(group[n].rel_config, module, None, None)      \* break
    ELSE MergeGroup(module, group, n + 1,
                    filters \cup group[n].filters[1], group[n].rel_config)

\* itertools.groupby: the length of the run of elements at the head of infos
\* whose key equals the key of the first one.
RECURSIVE RunLength(_, _)
RunLength(infos, key) ==
    IF infos = <<>> \/ infos[1].module_name # key THEN 0
    ELSE 1 + RunLength(Tail(infos), key)

RECURSIVE _flatten_by_module(_)
_flatten_by_module(infos) ==
    IF infos = <<>> THEN <<>>
    ELSE LET module == infos[1].module_name
             n == RunLength(infos, module)
             group == SubSeq(infos, 1, n)
             rest == SubSeq(infos, n + 1, Len(infos))
         IN  IF module = None
             THEN group \o _flatten_by_module(rest)
             ELSE <<MergeGroup(module, group, 1, {}, None)>>
                      \o _flatten_by_module(rest)

(***************************************************************************)
(* Specification of _flatten_by_module alone: every list of at most        *)
(* MaxInfos descriptors drawn from Descriptors is flattened.               *)
(***************************************************************************)
ModFoo == <<"F">>
ModBar == <<"B">>
ClsA == <<"p", ".", "A">>
ClsB == <<"p", ".", "B">>
IntName == <<"i">>
IntConfig == <<"t", "/", "res", "/", "config", "/", "i", ".", "xml">>

ModuleDescriptors ==
    {TestInfo(Some(m \o <<"/">> \o MODULE_CONFIG), Some(m), None, f) :
        m \in {ModFoo, ModBar},
        f \in {None, Some({}), Some({ClsA}), Some({ClsB})}}

IntegrationDescriptors == {TestInfo(Some(IntConfig), None, Some(IntName), None)}

Descriptors == ModuleDescriptors \cup IntegrationDescriptors

InitFlatten ==
    /\ stage = "input"
    /\ test_infos \in SeqsUpTo(Descriptors, MaxInfos)
    /\ flat = <<>>
    /\ IdleClassify /\ IdleTargets /\ IdleRun /\ IdleTranslate /\ IdleWalk

Flatten ==
    /\ stage = "input"
    /\ flat' = _flatten_by_module(test_infos)
    /\ stage' = "done"
    /\ UNCHANGED <<walkVars, classifyVars, test_infos, targetVars, runVars,
                   translateVars>>

NextFlatten == Flatten

SpecFlatten == InitFlatten /\ [][NextFlatten]_vars

\* C4: the output of _flatten_by_module holds at most one descriptor per
\* module name, whatever the order of the input, and every descriptor without
\* a module name passes through unmerged.
C4_GlobalGrouping ==
    stage = "done" =>
        /\ \A a, b \in 1..Len(flat) :
              (flat[a].module_name # None
                  /\ flat[a].module_name = flat[b].module_name) => a = b
        /\ SelectSeq(flat, LAMBDA d : d.module_name = None)
              = SelectSeq(test_infos, LAMBDA d : d.module_name = None)

\* The members of a list all carry the module name m.
AllOfModule(infos, m) ==
    infos # <<>> /\ \A n \in 1..Len(infos) : infos[n].module_name = Some(m)

\* C5: a non-empty list of descriptors of one module flattens to exactly one
\* descriptor of that module; its filters are the union of the members'
\* filters when every member has a non-empty filter set, and None when some
\* member, at any position, has absent or empty filters.
C5_MergeFilters ==
    \A m \in {ModFoo, ModBar} :
        (stage = "done" /\ AllOfModule(test_infos, m)) =>
            /\ Len(flat) = 1
            /\ flat[1].module_name = Some(m)
            /\ flat[1].integrated_name = None
            /\ IF \A n \in 1..Len(test_infos) :
                     /\ test_infos[n].filters # None
                     /\ test_infos[n].filters[1] # {}
               THEN flat[1].filters =
                      Some(UNION {test_infos[n].filters[1] :
                                      n \in 1..Len(test_infos)})
               ELSE flat[1].filters = None

\* {A}, then an unrestricted member, then {B}: flattened to no restriction.
C5_Witness ==
    /\ stage = "done"
    /\ Len(test_infos) = 3
    /\ AllOfModule(test_infos, ModFoo)
    /\ test_infos[1].filters = Some({ClsA})
    /\ test_infos[2].filters = None
    /\ test_infos[3].filters = Some({ClsB})
    /\ Len(flat) = 1 /\ flat[1].filters = None

\* {A} and {B} of one module: flattened to {A, B}.
C5_WitnessUnion ==
    /\ stage = "done"
    /\ Len(test_infos) = 2
    /\ AllOfModule(test_infos, ModFoo)
    /\ flat = <<TestInfo(Some(ModFoo \o <<"/">> \o MODULE_CONFIG), Some(ModFoo),
                         None, Some({ClsA, ClsB}))>>

(***************************************************************************)
(* The module index and the integration directories                        *)
(***************************************************************************)
\* The result of a call: a value returned, or an exception raised.
Return(v) == [exc |-> "", val |-> Some(v)]
Raise(e) == [exc |-> e, val |-> None]

\* frozensets, in the order the comprehensions of _get_integration_dirs
\* iterate them.
TF_TARGETS == << <<"tradefed">>, <<"tradefed-contrib">> >>
GTF_TARGETS == << <<"google-tradefed">>, <<"google-tradefed-contrib">> >>

\* dict.get(key): None for a missing key.
DictGet(d, key) == IF key \in DOMAIN d THEN Some(d[key]) ELSE None

\* _get_module_path: the first path of the module's entry, None without one.
_get_module_path(index, module_name) ==
    LET info == DictGet(index, module_name)
    IN  IF info # None THEN Some(info[1].path[1]) ELSE None

\* filter(None, [_get_module_path(x) for x in names])
RECURSIVE ModulePaths(_, _)
ModulePaths(index, names) ==
    IF names = <<>> THEN <<>>
    ELSE LET path == _get_module_path(index, names[1])
         IN  (IF TruthyStr(path) THEN <<path[1]>> ELSE <<>>)
                 \o ModulePaths(index, Tail(names))

\* _get_integration_dirs: (tf_dirs, gtf_dirs)
_get_integration_dirs(index) ==
    [tf_dirs |-> ModulePaths(index, TF_TARGETS),
     gtf_dirs |-> ModulePaths(index, GTF_TARGETS)]

(***************************************************************************)
(* os.path and str helpers used for build targets                          *)
(***************************************************************************)
\* os.path.commonprefix: the longest string every member starts with, ''
\* for the empty list.
commonprefix(m) ==
    IF m = <<>> THEN <<>>
    ELSE LET lens == {k \in 0..Len(m[1]) :
                         \A n \in 1..Len(m) :
                             StartsWith(m[n], SubSeq(m[1], 1, k))}
         IN  SubSeq(m[1], 1, CHOOSE k \in lens : \A j \in lens : j <= k)

\* The index of the last '/' of p, 0 without one.
LastSlash(p) ==
    LET at == {n \in 1..Len(p) : p[n] = "/"}
    IN  IF at = {} THEN 0 ELSE CHOOSE n \in at : \A j \in at : j <= n

\* str.rstrip('/')
RECURSIVE RStripSlash(_)
RStripSlash(p) ==
    IF p # <<>> /\ p[Len(p)] = "/" THEN RStripSlash(SubSeq(p, 1, Len(p) - 1))
    ELSE p

\* posixpath.dirname
dirname(p) ==
    LET head == SubSeq(p, 1, LastSlash(p))
    IN  IF head # <<>> /\ \E n \in 1..Len(head) : head[n] # "/"
        THEN RStripSlash(head) ELSE head

\* str.replace(old, new) for one-character old and new.
Replace(s, old, new) == [n \in 1..Len(s) |-> IF s[n] = old THEN new ELSE s[n]]

\* str.strip(): whitespace removed at both ends.
Whitespace == {" "}
RECURSIVE LStrip(_)
LStrip(s) == IF s # <<>> /\ s[1] \in Whitespace THEN LStrip(Tail(s)) ELSE s
RECURSIVE RStrip(_)
RStrip(s) ==
    IF s # <<>> /\ s[Len(s)] \in Whitespace
    THEN RStrip(SubSeq(s, 1, Len(s) - 1)) ELSE s
Strip(s) == LStrip(RStrip(s))

\* Case folding of re.I, on the letters of "apk".
LowerChar(c) ==
    IF c = "A" THEN "a" ELSE IF c = "P" THEN "p" ELSE IF c = "K" THEN "k" ELSE c
Lower(s) == [n \in 1..Len(s) |-> LowerChar(s[n])]

DotApk == <<".", "a", "p", "k">>

\* APK_RE.match(value): ^[^/]+\.apk$ with re.I, on a stripped value.
APK_RE(value) ==
    \E k \in 1..Len(value) :
        /\ \A n \in 1..k : value[n] # "/"
        /\ Lower(SubSeq(value, k + 1, Len(value))) = DotApk

(***************************************************************************)
(* Build targets                                                           *)
(***************************************************************************)
\* _get_targets_from_xml, at the n-th option element of the config file.
\* An option element is its value attribute: None when it has none, which
\* makes tag.attrib['value'] raise KeyError.
RECURSIVE TargetsFromTags(_, _, _)
TargetsFromTags(tags, n, found) ==
    IF n > Len(tags) THEN Return(found)
    ELSE IF tags[n] = None THEN Raise("KeyError")
    ELSE LET value == Strip(tags[n][1])
         IN  TargetsFromTags(tags, n + 1,
                 IF APK_RE(value)
                 THEN found \cup {SubSeq(value, 1, Len(value) - Len(DotApk))}
                 ELSE found)

_get_targets_from_xml(tags) == TargetsFromTags(tags, 1, {})

GOOGLE_TRADEFED_ALL == <<"google-tradefed-all">>
TRADEFED_ALL == <<"tradefed-all">>
MODULES_IN(dir) == <<"MODULES-IN-">> \o dir

\* _parse_build_targets, given the option elements of the descriptor's
\* config file and self.gtf_dirs.
_parse_build_targets(info, tags, gtf_dirs) ==
    LET xml == _get_targets_from_xml(tags)
    IN  IF xml.exc # "" THEN xml
        ELSE Return(
            xml.val[1]
            \cup (IF IsSubstring(commonprefix(gtf_dirs), info.rel_config[1])
                  THEN {GOOGLE_TRADEFED_ALL} ELSE {TRADEFED_ALL})
            \cup (IF TruthyStr(info.module_name)
                  THEN {MODULES_IN(Replace(dirname(info.rel_config[1]),
                                           "/", "-"))}
                  ELSE {}))

(***************************************************************************)
(* Specification of _parse_build_targets alone.  The index registers each  *)
(* Google integration target at one of GoogleRoots or not at all; the      *)
(* descriptor is one of TargetDescriptors; its config file holds at most   *)
(* MaxOptions option elements, each without a value or with one of         *)
(* OptionValues.                                                           *)
(***************************************************************************)
GoogleRoots == { <<"v", "/", "g">>, <<"v", "/", "g", "c">>, <<"w">> }

ModuleEntry(path, installed) == [path |-> <<path>>, installed |-> installed]
Installed == << <<"out", "/", "x", ".", "apk">> >>

\* An index that registers names[n] at paths[n][1] wherever paths[n] is not
\* None.
IndexOf(names, paths) ==
    [name \in {names[n] : n \in {k \in 1..Len(names) : paths[k] # None}} |->
        LET n == CHOOSE k \in 1..Len(names) : names[k] = name
        IN  ModuleEntry(paths[n][1], Installed)]

TargetDescriptors ==
    { TestInfo(Some(<<"v", "/", "g", "/", "res", "/", "config", "/", "i",
                      ".", "xml">>), None, Some(IntName), None),
      TestInfo(Some(<<"v", "/", "g", "x", "/">> \o MODULE_CONFIG),
               Some(ModFoo), None, None),
      TestInfo(Some(<<"v", "/", "g", "c", "/", "m", "/">> \o MODULE_CONFIG),
               Some(ModBar), None, Some({ClsA})),
      TestInfo(Some(<<"m", "/">> \o MODULE_CONFIG), Some(ModFoo), None, None) }

OptionValues ==
    { <<"F", ".", "a", "p", "k">>,
      <<"p", "/", "F", ".", "a", "p", "k">>,
      <<" ", "G", ".", "A", "P", "K", " ">>,
      <<"F", ".", "x", "m", "l">> }

OptionTags == {None} \cup {Some(v) : v \in OptionValues}

gtf_dirs == _get_integration_dirs(module_info).gtf_dirs

InitTargets ==
    /\ stage = "input"
    /\ \E paths \in [1..2 -> {None} \cup {Some(g) : g \in GoogleRoots}] :
           module_info = IndexOf(GTF_TARGETS, paths)
    /\ test_info \in {Some(d) : d \in TargetDescriptors}
    /\ option_tags \in SeqsUpTo(OptionTags, MaxOptions)
    /\ targets = None
    /\ IdleClassify /\ IdleFlatten /\ IdleRun /\ IdleTranslate /\ IdleWalk

ParseBuildTargets ==
    /\ stage = "input"
    /\ targets' = Some(_parse_build_targets(test_info[1], option_tags, gtf_dirs))
    /\ stage' = "done"
    /\ UNCHANGED <<walkVars, classifyVars, flattenVars, module_info,
                   test_info, option_tags, runVars, translateVars>>

NextTargets == ParseBuildTargets

SpecTargets == InitTargets /\ [][NextTargets]_vars

\* path lies under the directory dir.
Under(path, dir) == StartsWith(path, dir \o <<"/">>)

UnderGoogleRoot ==
    \E n \in 1..Len(gtf_dirs) : Under(test_info[1].rel_config[1], gtf_dirs[n])

\* C8: a descriptor contributes exactly one umbrella target:
\* google-tradefed-all if and only if its rel_config lies under one of the
\* Google integration roots, tradefed-all otherwise, for every list of Google
\* roots (the empty one, and roots sharing a partial prefix, included).
C8_UmbrellaByLocation ==
    (stage = "done" /\ targets[1].exc = "") =>
        /\ (GOOGLE_TRADEFED_ALL \in targets[1].val[1]) <=> UnderGoogleRoot
        /\ (TRADEFED_ALL \in targets[1].val[1]) <=> ~UnderGoogleRoot

\* C9: a config file with an option whose value is "p/F.apk" yields the
\* build target "F".
C9_ApkAfterDirectory ==
    (stage = "done" /\ targets[1].exc = ""
        /\ \E n \in 1..Len(option_tags) :
              option_tags[n] = Some(<<"p", "/", "F", ".", "a", "p", "k">>))
        => <<"F">> \in targets[1].val[1]

\* The option elements of the config file that carry a value attribute.
HasValue(tag) == tag # None
ValuedTags == SelectSeq(option_tags, HasValue)

\* C12: an option element without a value attribute is ignored: with such
\* an element in the config file, the extraction does not fail and yields
\* the build targets of the option elements that carry a value.
C12_ValuelessOptionIgnored ==
    (stage = "done" /\ \E n \in 1..Len(option_tags) : option_tags[n] = None)
        => /\ targets[1].exc = ""
           /\ targets[1].val[1] =
                  _parse_build_targets(test_info[1], ValuedTags,
                                       gtf_dirs).val[1]

(***************************************************************************)
(* Run commands                                                            *)
(***************************************************************************)
\* sep.join(parts)
RECURSIVE Join(_, _)
Join(sep, parts) ==
    IF parts = <<>> THEN <<>>
    ELSE IF Len(parts) = 1 THEN parts[1]
    ELSE parts[1] \o sep \o Join(sep, Tail(parts))

\* The sequences that list every member of the set S once: the orders in
\* which iterating over a set can yield its members.
SetOrders(S) ==
    {o \in [1..Cardinality(S) -> S] : \A a \in S : \E n \in DOMAIN o : o[n] = a}

\* TestInfo.paramify, with the filters iterated in the given order.  The
\* result is None when neither name is set.
paramify(info, order) ==
    IF TruthyStr(info.integrated_name) THEN info.integrated_name
    ELSE IF TruthySet(info.filters)
    THEN Some(info.module_name[1] \o <<":">> \o Join(<<",">>, order))
    ELSE info.module_name

\* RUN_CMD % flags
RUN_CMD(flags) ==
    <<"atest_tradefed.sh", " ", "run", " ", "commandAndExit", " ",
      "template/local_min", " ", "--template:map", " ", "test=atest", " ">>
        \o flags

\* The loop of lines 581-582, at the n-th descriptor.
RECURSIVE TestInfoArgs(_, _, _)
TestInfoArgs(infos, orders, n) ==
    IF n > Len(infos) THEN <<>>
    ELSE << <<"--test-info">>, paramify(infos[n], orders[n])[1] >>
             \o TestInfoArgs(infos, orders, n + 1)

\* A generator that prepends each pair instead of appending it.
RECURSIVE MutantTestInfoArgsReversed(_, _, _)
MutantTestInfoArgsReversed(infos, orders, n) ==
    IF n > Len(infos) THEN <<>>
    ELSE MutantTestInfoArgsReversed(infos, orders, n + 1)
             \o << <<"--test-info">>, paramify(infos[n], orders[n])[1] >>

Mutant_generate_run_commands_reversed(infos, is_debug, orders) ==
    LET log_level == IF is_debug THEN <<"VERBOSE">> ELSE <<"WARN">>
        args == << <<"--log-level">>, log_level >>
                    \o MutantTestInfoArgsReversed(infos, orders, 1)
    IN  <<RUN_CMD(Join(<<" ">>, args))>>

\* _generate_run_commands; orders[n] is the order in which the filters of
\* the n-th descriptor are iterated.
_generate_run_commands(infos, is_debug, orders) ==
    LET log_level == IF is_debug THEN <<"VERBOSE">> ELSE <<"WARN">>
        args == << <<"--log-level">>, log_level >>
                    \o TestInfoArgs(infos, orders, 1)
    IN  <<RUN_CMD(Join(<<" ">>, args))>>

\* The filter set of a descriptor, empty when it has none.
FilterSet(info) == IF info.filters = None THEN {} ELSE info.filters[1]

\* The iteration orders of the filter sets of a list of descriptors.
FilterOrders(infos) ==
    {orders \in [1..Len(infos) ->
                    UNION {SetOrders(FilterSet(infos[n])) : n \in 1..Len(infos)}] :
        \A n \in 1..Len(infos) : orders[n] \in SetOrders(FilterSet(infos[n]))}

(***************************************************************************)
(* Specification of _generate_run_commands alone: every list of at most    *)
(* MaxInfos descriptors drawn from RunDescriptors, at either log level.    *)
(***************************************************************************)
RunDescriptors ==
    {TestInfo(Some(m \o <<"/">> \o MODULE_CONFIG), Some(m), None, f) :
        m \in {ModFoo, ModBar},
        f \in {None, Some({ClsA}), Some({ClsA, ClsB})}}
    \cup IntegrationDescriptors

InitRun ==
    /\ stage = "input"
    /\ test_infos \in SeqsUpTo(RunDescriptors, MaxInfos)
    /\ debug \in BOOLEAN
    /\ run_commands = <<>>
    /\ flat = <<>>
    /\ IdleClassify /\ IdleTargets /\ IdleTranslate /\ IdleWalk

GenerateRunCommands ==
    /\ stage = "input"
    /\ \E orders \in FilterOrders(test_infos) :
           run_commands' = _generate_run_commands(test_infos, debug, orders)
    /\ stage' = "done"
    /\ UNCHANGED <<walkVars, classifyVars, flattenVars, targetVars, debug,
                   translateVars>>

NextRun == GenerateRunCommands

SpecRun == InitRun /\ [][NextRun]_vars

\* str.split(sep) for a one-character sep.
RECURSIVE SplitFrom(_, _, _)
SplitFrom(s, sep, word) ==
    IF s = <<>> THEN <<word>>
    ELSE IF s[1] = sep THEN <<word>> \o SplitFrom(Tail(s), sep, <<>>)
    ELSE SplitFrom(Tail(s), sep, Append(word, s[1]))
Split(s, sep) == SplitFrom(s, sep, <<>>)

\* The words of a fixed template, before its flags.
TemplateWords ==
    << <<"atest_tradefed.sh">>, <<"run">>, <<"commandAndExit">>,
       <<"template/local_min">>, <<"--template:map">>, <<"test=atest">> >>

\* C10: for every list of descriptors, the empty one included,
\* _generate_run_commands returns one command: the fixed template, then
\* --log-level and VERBOSE or WARN, then one "--test-info <paramify()>" pair
\* per descriptor, in the order of the list.
C10_OneRunCommand ==
    stage = "done" =>
        /\ Len(run_commands) = 1
        /\ LET words == Split(run_commands[1], " ")
               k == Len(TemplateWords)
           IN  /\ Len(words) = k + 2 + 2 * Len(test_infos)
               /\ SubSeq(words, 1, k) = TemplateWords
               /\ words[k + 1] = <<"--log-level">>
               /\ words[k + 2] = (IF debug THEN <<"VERBOSE">> ELSE <<"WARN">>)
               /\ \A n \in 1..Len(test_infos) :
                     /\ words[k + 1 + 2 * n] = <<"--test-info">>
                     /\ \E o \in SetOrders(FilterSet(test_infos[n])) :
                           Some(words[k + 2 + 2 * n]) = paramify(test_infos[n], o)

\* A command for an integration test followed by a module with two filters.
C10_Witness ==
    /\ stage = "done"
    /\ Len(test_infos) = 2
    /\ test_infos[1].integrated_name = Some(IntName)
    /\ test_infos[2].filters = Some({ClsA, ClsB})
    /\ Split(run_commands[1], " ")[Len(TemplateWords) + 4] = IntName
    /\ Split(run_commands[1], " ")[Len(TemplateWords) + 6]
           = ModFoo \o <<":">> \o ClsB \o <<",">> \o ClsA

\* The command for the empty list holds the log level alone.
C10_WitnessEmpty ==
    /\ stage = "done"
    /\ test_infos = <<>>
    /\ debug
    /\ run_commands = <<RUN_CMD(<<"--log-level", " ", "VERBOSE">>)>>

(***************************************************************************)
(* Paths and the file system                                               *)
(***************************************************************************)
EndsWith(s, suffix) ==
    Len(s) >= Len(suffix) /\ SubSeq(s, Len(s) - Len(suffix) + 1, Len(s)) = suffix

\* os.path.join(a, b)
join(a, b) ==
    IF StartsWith(b, <<"/">>) THEN b
    ELSE IF a = <<>> \/ a[Len(a)] = "/" THEN a \o b
    ELSE a \o <<"/">> \o b

\* posixpath.normpath, on the components of a path: '' and '.' are dropped
\* and '..' removes the component before it.
RECURSIVE NormComps(_, _, _)
NormComps(comps, acc, absolute) ==
    IF comps = <<>> THEN acc
    ELSE LET c == comps[1]
             rest == Tail(comps)
         IN  IF c = <<>> \/ c = <<".">> THEN NormComps(rest, acc, absolute)
             ELSE IF c # <<".", ".">> THEN NormComps(rest, Append(acc, c), absolute)
             ELSE IF acc # <<>> /\ acc[Len(acc)] # <<".", ".">>
                  THEN NormComps(rest, SubSeq(acc, 1, Len(acc) - 1), absolute)
             ELSE IF absolute THEN NormComps(rest, acc, absolute)
             ELSE NormComps(rest, Append(acc, c), absolute)

PathComps(p) == NormComps(Split(p, "/"), <<>>, StartsWith(p, <<"/">>))

normpath(p) ==
    LET body == Join(<<"/">>, PathComps(p))
    IN  IF StartsWith(p, <<"/">>) THEN <<"/">> \o body
        ELSE IF body = <<>> THEN <<".">> ELSE body

\* The number of leading components two component lists share.
RECURSIVE CommonComps(_, _)
CommonComps(a, b) ==
    IF a = <<>> \/ b = <<>> \/ a[1] # b[1] THEN 0
    ELSE 1 + CommonComps(Tail(a), Tail(b))

\* posixpath.relpath(path, start), both absolute.
relpath(path, start) ==
    LET start_list == PathComps(start)
        path_list == PathComps(path)
        i == CommonComps(start_list, path_list)
        rel_list == [n \in 1..(Len(start_list) - i) |-> <<".", ".">>]
                        \o SubSeq(path_list, i + 1, Len(path_list))
    IN  IF rel_list = <<>> THEN <<".">> ELSE Join(<<"/">>, rel_list)

\* os.path.split(path)[1]
basename(p) == SubSeq(p, LastSlash(p) + 1, Len(p))

\* os.path.splitext(name)[0]: the name up to its last '.', unless that '.'
\* leads the name.
splitext_root(name) ==
    LET at == {n \in 2..Len(name) : name[n] = "."}
    IN  IF at = {} THEN name
        ELSE SubSeq(name, 1, (CHOOSE n \in at : \A j \in at : j <= n) - 1)

\* The process runs in the repository root; the trees analysed hold no
\* symbolic link, so that os.path.realpath is abspath.
root_dir == <<"/", "r">>
cwd == root_dir
realpath(p) == normpath(join(cwd, p))

\* The directories above a path.
Ancestors(p) ==
    {<<"/">>} \cup {SubSeq(p, 1, n - 1) : n \in {k \in 2..Len(p) : p[k] = "/"}}

Dirs(fs) == UNION {Ancestors(f) : f \in fs}
isfile(fs, p) == p \in fs
isdir(fs, p) == p \in Dirs(fs)
exists(fs, p) == isfile(fs, p) \/ isdir(fs, p)

\* _is_equal_or_sub_dir
_is_equal_or_sub_dir(fs, sub_dir, parent_dir) ==
    LET parent == realpath(parent_dir)
        sub == realpath(sub_dir)
    IN  IF ~isdir(fs, sub) \/ ~isdir(fs, parent) THEN FALSE
        ELSE commonprefix(<<sub, parent>>) = parent

\* A call that never returns.
NEVER_RETURNS == "never returns"

\* The loop of _find_parent_module_dir at current_dir.  A current_dir that
\* is its own dirname and is not the root is revisited for ever.
RECURSIVE ParentModuleDirFrom(_, _)
ParentModuleDirFrom(fs, current_dir) ==
    IF current_dir = root_dir THEN Raise("TestWithNoModuleError")
    ELSE IF isfile(fs, join(current_dir, MODULE_CONFIG))
    THEN Return(relpath(current_dir, root_dir))
    ELSE IF dirname(current_dir) = current_dir THEN Raise(NEVER_RETURNS)
    ELSE ParentModuleDirFrom(fs, dirname(current_dir))

_find_parent_module_dir(fs, start_dir) ==
    IF ~_is_equal_or_sub_dir(fs, start_dir, root_dir) THEN Raise("ValueError")
    ELSE ParentModuleDirFrom(fs, start_dir)

(***************************************************************************)
(* Specification of _find_parent_module_dir alone: the walk is started     *)
(* from every directory of every tree drawn from WalkFiles.  The trees     *)
(* hold the repository /r, its sibling /rx, whose name extends the name of *)
(* the repository, and the unrelated /s.                                   *)
(***************************************************************************)
WalkBaseFiles == { <<"/", "r", "/", "m", "/", "p", "/", "C", ".", "java">> }
WalkFiles ==
    { <<"/", "r", "/", "m", "/">> \o MODULE_CONFIG,
      <<"/", "r", "/", "m", "/", "p", "/">> \o MODULE_CONFIG,
      <<"/", "r", "/", "n", "/", "C", ".", "java">>,
      <<"/", "r", "x", "/", "y", "/", "C", ".", "java">>,
      <<"/", "r", "x", "/">> \o MODULE_CONFIG,
      <<"/", "s", "/", "C", ".", "java">> }

\* The directories a caller can pass: realpath of a path that exists, or
\* the dirname of a line that find printed.
StartDirs == Dirs(WalkBaseFiles \cup WalkFiles)

InitWalk ==
    /\ stage = "input"
    /\ files \in {WalkBaseFiles \cup more : more \in SUBSET WalkFiles}
    /\ walk_start \in StartDirs
    /\ walk_outcome = None
    /\ tests = <<>> /\ pc = "idle" /\ IdleLookup
    /\ IdleClassify /\ IdleFlatten /\ IdleTargets /\ IdleRun

FindParentModuleDir ==
    /\ stage = "input"
    /\ walk_outcome' = Some(_find_parent_module_dir(files, walk_start))
    /\ stage' = "done"
    /\ UNCHANGED <<walk_start, classifyVars, flattenVars, targetVars, runVars,
                   translateVars>>

NextWalk == FindParentModuleDir

SpecWalk == InitWalk /\ [][NextWalk]_vars

\* dir holds an AndroidTest.xml.
IsModuleDir(dir) == isfile(files, join(dir, MODULE_CONFIG))

\* dir is walk_start or a directory above it.
AtOrAbove(dir) == dir = walk_start \/ Under(walk_start, dir)

\* module_dir is the nearest directory at or above walk_start that holds an
\* AndroidTest.xml, and it lies under the repository root.
NearestModuleDir(module_dir) ==
    /\ Under(module_dir, root_dir)
    /\ AtOrAbove(module_dir)
    /\ IsModuleDir(module_dir)
    /\ \A d \in Dirs(files) :
           (AtOrAbove(d) /\ Under(d, module_dir)) => ~IsModuleDir(d)

\* C14: for every start directory that passes the _is_equal_or_sub_dir
\* check against the repository root, the upward walk terminates: it
\* returns the nearest directory at or above the start that holds
\* AndroidTest.xml, which lies under the root, or it raises
\* TestWithNoModuleError; it does not go above the root or loop for ever.
C14_WalkTerminatesUnderRoot ==
    (stage = "done" /\ _is_equal_or_sub_dir(files, walk_start, root_dir)) =>
        \/ walk_outcome[1].exc = "TestWithNoModuleError"
        \/ /\ walk_outcome[1].exc = ""
           /\ NearestModuleDir(
                  normpath(join(root_dir, walk_outcome[1].val[1])))

\* The paths a find command visits below start: everything under it, less
\* what lies in a .git directory.
FindVisits(fs, start) ==
    {f \in fs \cup Dirs(fs) :
        /\ f = start \/ StartsWith(f, start \o <<"/">>)
        /\ ~IsSubstring(<<"/", ".", "git", "/">>, f)}

DotJava == <<".", "java">>
DotXml == <<".", "xml">>

\* FIND_CMDS: the set of lines each command prints.  A find whose start
\* directory does not exist exits with status 1, and subprocess.check_output
\* raises CalledProcessError.
FindClass(fs, start, class_name) ==
    {f \in FindVisits(fs, start) :
        isfile(fs, f) /\ basename(f) = class_name \o DotJava}
FindQualifiedClass(fs, start, class_path) ==
    {f \in FindVisits(fs, start) \ {start} : EndsWith(f, class_path \o DotJava)}
FindIntegration(fs, start, name) ==
    {f \in FindVisits(fs, start) \ {start} : EndsWith(f, name \o DotXml)}

\* INT_NAME_RE.match(path).group('int_name'), None without a match:
\* ^.*\/res\/config\/(?P<int_name>.*).xml$  The first .* is greedy, so the
\* name starts after the last /res/config/ that leaves room for a character
\* and "xml".
ResConfig == <<"/", "res", "/", "config", "/">>
INT_NAME_RE(path) ==
    LET at == {b \in 1..Len(path) :
                  /\ b + Len(ResConfig) - 1 <= Len(path) - 2
                  /\ SubSeq(path, b, b + Len(ResConfig) - 1) = ResConfig
                  /\ path[Len(path)] = "xml"}
    IN  IF at = {} THEN None
        ELSE LET b == CHOOSE n \in at : \A j \in at : j <= n
             IN  Some(SubSeq(path, b + Len(ResConfig), Len(path) - 2))

\* The package declared in a java file, None when the file has no package
\* line (PACKAGE_RE matches no line of it).
PackageOf(path) ==
    IF EndsWith(path, <<"/", "p", "/", "C", ".", "java">>) THEN Some(<<"p">>)
    ELSE None

\* _get_fully_qualified_class_name; test_path is None or Some(path).
\* open(None) raises TypeError.
_get_fully_qualified_class_name(fs, test_path) ==
    IF test_path = None THEN Raise("TypeError")
    ELSE IF ~isfile(fs, test_path[1]) THEN Raise("IOError")
    ELSE IF PackageOf(test_path[1]) = None THEN Raise("MissingPackageName")
    ELSE Return(PackageOf(test_path[1])[1] \o <<".">>
                    \o splitext_root(basename(test_path[1])))

\* dict.get(key) of a module entry: None for a missing key.
EntryGet(info, key) == IF key \in DOMAIN info THEN Some(info[key]) ELSE None

\* _get_module_name, with module_info.iteritems() yielding the names in the
\* given order.  info.get('path', [])[0] raises IndexError for an entry
\* without a path.
RECURSIVE ModuleNameFrom(_, _, _, _)
ModuleNameFrom(index, rel_module_path, order, n) ==
    IF n > Len(order) THEN Raise("UnregisteredModuleError")
    ELSE LET info == index[order[n]]
         IN  IF EntryGet(info, "path") = None THEN Raise("IndexError")
             ELSE IF rel_module_path = info.path[1]
                     /\ EntryGet(info, "installed") # None
                     /\ info.installed # <<>>
             THEN Return(order[n])
             ELSE ModuleNameFrom(index, rel_module_path, order, n + 1)

_get_module_name(index, rel_module_path, order) ==
    ModuleNameFrom(index, rel_module_path, order, 1)

(***************************************************************************)
(* Resolution strategies.  Each returns None or a TestInfo, raises, or     *)
(* stops in raw_input with the tests it printed.                           *)
(***************************************************************************)
\* The call waits in raw_input (line 271) for the tests in ctx.
RAW_INPUT == "raw_input"
Blocked(ctx) == [exc |-> RAW_INPUT, val |-> Some(ctx)]

\* _find_test_by_module_name.  info['path'] raises KeyError for an entry
\* without a path.
_find_test_by_module_name(index, module_name) ==
    LET info == DictGet(index, module_name)
    IN  IF info # None /\ EntryGet(info[1], "installed") # None
               /\ info[1].installed # <<>>
        THEN IF EntryGet(info[1], "path") = None THEN Raise("KeyError")
             ELSE Return(Some(TestInfo(
                      Some(join(info[1].path[1], MODULE_CONFIG)),
                      Some(module_name), None, None)))
        ELSE Return(None)

\* _find_test_by_class_name from line 392 on, _extract_test_path having
\* returned test_path (None or Some(path)).
ClassAfterExtract(fs, index, test_path, order) ==
    LET full_class_name == _get_fully_qualified_class_name(fs, test_path)
    IN  IF full_class_name.exc # "" THEN full_class_name
        ELSE IF ~TruthyStr(test_path) THEN Return(None)
        ELSE LET test_dir == dirname(test_path[1])
                 rel_module_dir == _find_parent_module_dir(fs, test_dir)
             IN  IF rel_module_dir.exc # "" THEN rel_module_dir
                 ELSE LET rel_config ==
                              join(rel_module_dir.val[1], MODULE_CONFIG)
                          module_name ==
                              _get_module_name(index, rel_module_dir.val[1],
                                               order)
                      IN  IF module_name.exc # "" THEN module_name
                          ELSE Return(Some(TestInfo(
                                   Some(rel_config), Some(module_name.val[1]),
                                   None, Some({full_class_name.val[1]}))))

\* The lines the find command of _find_test_by_class_name prints.
ClassHits(fs, class_name) ==
    IF IsSubstring(<<".">>, class_name)
    THEN FindQualifiedClass(fs, root_dir, Replace(class_name, ".", "/"))
    ELSE FindClass(fs, root_dir, class_name)

\* _extract_test_path on the lines a find printed: None for no line, the
\* line for one, and a prompt for more.
OnlyHit(hits) == IF hits = {} THEN None ELSE Some(CHOOSE f \in hits : TRUE)

_find_test_by_class_name(fs, index, class_name, order) ==
    LET hits == ClassHits(fs, class_name)
    IN  IF Cardinality(hits) > 1
        THEN Blocked([strategy |-> "class", name |-> class_name, dir |-> 0,
                      hits |-> hits])
        ELSE ClassAfterExtract(fs, index, OnlyHit(hits), order)

\* _find_test_by_integration_name: the loop at the d-th integration dir,
\* and its body from line 417 on.
RECURSIVE IntegrationFrom(_, _, _, _)
RECURSIVE IntegrationAfterExtract(_, _, _, _, _)
IntegrationAfterExtract(fs, dirs, name, d, test_file) ==
    IF ~TruthyStr(test_file) THEN IntegrationFrom(fs, dirs, name, d + 1)
    ELSE LET int_name == INT_NAME_RE(test_file[1])
         IN  IF int_name = None THEN Return(None)
             ELSE IF int_name[1] # name THEN Return(None)
             ELSE Return(Some(TestInfo(Some(relpath(test_file[1], root_dir)),
                                       None, Some(name), None)))

IntegrationFrom(fs, dirs, name, d) ==
    IF d > Len(dirs) THEN Return(None)
    ELSE LET abs_path == join(root_dir, dirs[d])
             hits == FindIntegration(fs, abs_path, name)
         IN  IF ~exists(fs, abs_path) THEN Raise("CalledProcessError")
             ELSE IF Cardinality(hits) > 1
             THEN Blocked([strategy |-> "integration", name |-> name,
                           dir |-> d, hits |-> hits])
             ELSE IntegrationAfterExtract(fs, dirs, name, d, OnlyHit(hits))

\* An integration strategy that also files its config under a module of the
\* same name.
Mutant_find_test_by_integration_name_as_module(fs, dirs, name) ==
    LET found == IntegrationFrom(fs, dirs, name, 1)
    IN  IF found.exc = "" /\ found.val[1] # None
        THEN Return(Some([found.val[1][1] EXCEPT !.module_name = Some(name)]))
        ELSE found

_find_test_by_integration_name(fs, dirs, name) ==
    IntegrationFrom(fs, dirs, name, 1)

\* Lines 464-469: the first integration dir that holds dir_path, None
\* without one.
RECURSIVE IntDirFrom(_, _, _, _)
IntDirFrom(fs, dirs, dir_path, d) ==
    IF d > Len(dirs) THEN None
    ELSE IF _is_equal_or_sub_dir(fs, dir_path, join(root_dir, dirs[d]))
    THEN Some(join(root_dir, dirs[d]))
    ELSE IntDirFrom(fs, dirs, dir_path, d + 1)

_find_test_by_path(fs, index, dirs, ref_path, order) ==
    LET path == realpath(ref_path)
        is_file == isfile(fs, path)
        dir_path == IF is_file THEN dirname(path) ELSE path
        file_name == IF is_file THEN Some(basename(path)) ELSE None
        int_dir == IntDirFrom(fs, dirs, dir_path, 1)
    IN  IF ~exists(fs, path) THEN Return(None)
        ELSE IF TruthyStr(int_dir)
        THEN IF ~TruthyStr(file_name) THEN Return(None)
             ELSE LET rel_config == relpath(path, root_dir)
                      int_name == INT_NAME_RE(rel_config)
                  IN  IF int_name = None THEN Return(None)
                      ELSE Return(Some(TestInfo(Some(rel_config), None,
                                                int_name, None)))
        ELSE LET rel_module_dir == _find_parent_module_dir(fs, dir_path)
             IN  IF rel_module_dir.exc # "" THEN rel_module_dir
                 ELSE IF rel_module_dir.val[1] = <<>> THEN Return(None)
                 ELSE LET module_name ==
                              _get_module_name(index, rel_module_dir.val[1],
                                               order)
                          rel_config ==
                              join(rel_module_dir.val[1], MODULE_CONFIG)
                          class_name ==
                              IF TruthyStr(file_name)
                                 /\ EndsWith(file_name[1], DotJava)
                              THEN _get_fully_qualified_class_name(fs, Some(path))
                              ELSE Return(<<>>)
                      IN  IF module_name.exc # "" THEN module_name
                          ELSE IF class_name.exc # "" THEN class_name
                          ELSE Return(Some(TestInfo(
                                   Some(rel_config), Some(module_name.val[1]),
                                   None,
                                   IF class_name.val[1] # <<>>
                                   THEN Some({class_name.val[1]}) ELSE None)))

\* The keys of self.ref_type_to_func_map.
SupportedTypes ==
    {"MODULE", "CLASS", "QUALIFIED_CLASS", "FILE_PATH", "INTEGRATION"}

\* The option elements of a config file.
ConfigTags(path) ==
    IF basename(path) = MODULE_CONFIG
    THEN << Some(<<"M", ".", "a", "p", "k">>), Some(<<"x">>) >>
    ELSE << Some(<<"y">>) >>

\* _generate_build_targets at the n-th descriptor; ET.parse raises IOError
\* for a config file that does not exist.
RECURSIVE BuildTargetsFrom(_, _, _, _, _)
BuildTargetsFrom(fs, infos, google_dirs, n, build_targets) ==
    IF n > Len(infos) THEN Return(build_targets)
    ELSE LET config_file == join(root_dir, infos[n].rel_config[1])
             parsed == _parse_build_targets(infos[n], ConfigTags(config_file),
                                            google_dirs)
         IN  IF ~isfile(fs, config_file) THEN Raise("IOError")
             ELSE IF parsed.exc # "" THEN parsed
             ELSE BuildTargetsFrom(fs, infos, google_dirs, n + 1,
                                   build_targets \cup parsed.val[1])

_generate_build_targets(fs, infos, google_dirs) ==
    BuildTargetsFrom(fs, infos, google_dirs, 1, {})

(***************************************************************************)
(* translate                                                               *)
(***************************************************************************)
integration_dirs ==
    _get_integration_dirs(module_info).tf_dirs
        \o _get_integration_dirs(module_info).gtf_dirs

\* The orders in which module_info.iteritems() can yield the names.
IndexOrders == SetOrders(DOMAIN module_info)

\* The repository trees analysed: module M in /r/m with class p.C, and
\* possibly a second C.java outside any module and without a package line,
\* and integration configs i and x/i under the tradefed directory /r/t.
ModM == <<"M">>
BaseFiles ==
    { <<"/", "r", "/", "m", "/">> \o MODULE_CONFIG,
      <<"/", "r", "/", "m", "/", "p", "/", "C", ".", "java">> }
OptionalFiles ==
    { <<"/", "r", "/", "n", "/", "C", ".", "java">>,
      <<"/", "r", "/", "t", "/", "res", "/", "config", "/", "i", ".", "xml">>,
      <<"/", "r", "/", "t", "/", "res", "/", "config", "/", "x", "/", "i",
        ".", "xml">> }

\* The indexes analysed: tradefed at t, and M installed at m, not
\* installed, without a path, or not registered.
BaseIndex == (<<"tradefed">> :> ModuleEntry(<<"t">>, Installed))
Indexes ==
    { BaseIndex,
      BaseIndex @@ (ModM :> ModuleEntry(<<"m">>, Installed)),
      BaseIndex @@ (ModM :> ModuleEntry(<<"m">>, <<>>)),
      BaseIndex @@ (ModM :> [installed |-> Installed]) }

\* The test references analysed.
TestRefs ==
    { <<"M">>, <<"C">>, <<"i">>, <<"p", ".", "C">>, <<"M", ":", "C">>,
      <<"m", "/", "p", "/", "C", ".", "java">>, <<"x", "/", "i">> }

\* What the user can type at the prompt, when it is a number.
Answers == -1..2

Init ==
    /\ stage = "translate"
    /\ tests \in SeqsUpTo(TestRefs, MaxTests)
    /\ files \in {BaseFiles \cup more : more \in SUBSET OptionalFiles}
    /\ module_info \in Indexes
    /\ pc = "loop"
    /\ test_infos = <<>> /\ flat = <<>>
    /\ test_info = None /\ option_tags = <<>> /\ targets = None
    /\ IdleLookup /\ IdleClassify /\ IdleRun /\ IdleWalk

\* What is left alone by every step of the lookup.
LookupFrame ==
    UNCHANGED <<stage, walkVars, classifyVars, flat, targetVars, runVars,
                tests, files, steps>>

\* Line 630: the next test string is classified, or the loop ends.
ForEachTest ==
    /\ pc = "loop"
    /\ IF idx <= Len(tests)
       THEN /\ kinds' = _get_test_reference_types(tests[idx])
            /\ kpos' = 1
            /\ pc' = "lookup"
       ELSE /\ pc' = "flatten"
            /\ UNCHANGED <<kinds, kpos>>
    /\ UNCHANGED <<idx, waiting, error, calls, warnings, test_infos>>
    /\ LookupFrame

\* Lines 601-613 and 633-636: what _get_test_info and translate do with
\* the outcome of a strategy.
Conclude(outcome) ==
    IF outcome.exc = "" /\ outcome.val[1] # None
    THEN /\ test_infos' = Append(test_infos, outcome.val[1][1])
         /\ idx' = idx + 1
         /\ pc' = "loop"
         /\ kinds' = <<>> /\ kpos' = 0
         /\ waiting' = None
         /\ UNCHANGED <<error, warnings>>
    ELSE IF outcome.exc = ""
    THEN /\ kpos' = kpos + 1
         /\ pc' = "lookup"
         /\ waiting' = None
         /\ UNCHANGED <<test_infos, idx, kinds, error, warnings>>
    ELSE IF outcome.exc = RAW_INPUT
    THEN /\ pc' = "raw_input"
         /\ waiting' = outcome.val
         /\ UNCHANGED <<test_infos, idx, kinds, kpos, error, warnings>>
    ELSE IF outcome.exc = NEVER_RETURNS
    THEN /\ pc' = "hung"
         /\ waiting' = None
         /\ UNCHANGED <<test_infos, idx, kinds, kpos, error, warnings>>
    ELSE IF outcome.exc = "KeyError"
    THEN /\ warnings' = Append(warnings, [input |-> idx, kind |-> kinds[kpos]])
         /\ kpos' = kpos + 1
         /\ pc' = "lookup"
         /\ waiting' = None
         /\ UNCHANGED <<test_infos, idx, kinds, error>>
    ELSE /\ pc' = "raised"
         /\ error' = Some([type |-> outcome.exc, arg |-> <<>>])
         /\ waiting' = None
         /\ UNCHANGED <<test_infos, idx, kinds, kpos, warnings>>

\* The strategy of kinds[kpos] is about to be called.
AtKind(kind_set) ==
    /\ pc = "lookup"
    /\ kpos <= Len(kinds)
    /\ kinds[kpos] \in kind_set

Invoke == calls' = Append(calls, [input |-> idx, kind |-> kinds[kpos]])

FindTestByModuleName ==
    /\ AtKind({"MODULE"})
    /\ Invoke
    /\ Conclude(_find_test_by_module_name(module_info, tests[idx]))
    /\ LookupFrame

FindTestByClassName ==
    /\ AtKind({"CLASS", "QUALIFIED_CLASS"})
    /\ Invoke
    /\ \E order \in IndexOrders :
           Conclude(_find_test_by_class_name(files, module_info, tests[idx],
                                             order))
    /\ LookupFrame

FindTestByIntegrationName ==
    /\ AtKind({"INTEGRATION"})
    /\ Invoke
    /\ Conclude(_find_test_by_integration_name(files, integration_dirs,
                                               tests[idx]))
    /\ LookupFrame

FindTestByPath ==
    /\ AtKind({"FILE_PATH"})
    /\ Invoke
    /\ \E order \in IndexOrders :
           Conclude(_find_test_by_path(files, module_info, integration_dirs,
                                       tests[idx], order))
    /\ LookupFrame

\* Lines 600 and 607-613: the lookup in ref_type_to_func_map raises
\* KeyError, which is logged as a warning.
UnsupportedReference ==
    /\ AtKind({REFERENCE_TYPE[n] : n \in 1..Len(REFERENCE_TYPE)} \ SupportedTypes)
    /\ Conclude(Raise("KeyError"))
    /\ UNCHANGED calls
    /\ LookupFrame

\* Lines 271-272: the user answers the prompt with a number; the find
\* command printed the tests in some order.
RawInput ==
    /\ pc = "raw_input"
    /\ \E tests_found \in SetOrders(waiting[1].hits), test_index \in Answers,
          order \in IndexOrders :
          IF test_index >= Len(tests_found) \/ test_index < -Len(tests_found)
          THEN Conclude(Raise("IndexError"))
          ELSE LET test_path ==
                       tests_found[(test_index % Len(tests_found)) + 1]
               IN  IF waiting[1].strategy = "class"
                   THEN Conclude(ClassAfterExtract(files, module_info,
                                                   Some(test_path), order))
                   ELSE Conclude(IntegrationAfterExtract(
                                     files, integration_dirs, waiting[1].name,
                                     waiting[1].dir, Some(test_path)))
    /\ UNCHANGED calls
    /\ LookupFrame

\* Line 271: the answer is not a number, and int() raises ValueError.
RawInputNotANumber ==
    /\ pc = "raw_input"
    /\ Conclude(Raise("ValueError"))
    /\ UNCHANGED calls
    /\ LookupFrame

\* A translate that logs an input without a test and goes on to the next.
MutantNoTestFoundSkip ==
    /\ pc = "lookup"
    /\ kpos > Len(kinds)
    /\ pc' = "loop"
    /\ idx' = idx + 1
    /\ UNCHANGED <<test_infos, kinds, kpos, waiting, error, calls, warnings>>
    /\ LookupFrame

\* Lines 633-635: _get_test_info ran out of kinds and returned None.
NoTestFound ==
    /\ pc = "lookup"
    /\ kpos > Len(kinds)
    /\ pc' = "raised"
    /\ error' = Some([type |-> "NoTestFoundError", arg |-> tests[idx]])
    /\ UNCHANGED <<test_infos, idx, kinds, kpos, waiting, calls, warnings>>
    /\ LookupFrame

\* What is left alone by every step of the aggregation.
AggregateFrame ==
    UNCHANGED <<stage, walkVars, classifyVars, test_infos, module_info,
                test_info, option_tags, debug, tests, files, idx, kinds, kpos, waiting,
                calls, warnings>>

\* Line 637
FlattenByModule ==
    /\ pc = "flatten"
    /\ flat' = _flatten_by_module(test_infos)
    /\ steps' = steps \cup {"flatten"}
    /\ pc' = "build"
    /\ UNCHANGED <<targets, run_commands, error>>
    /\ AggregateFrame

\* Line 638
GenerateBuildTargets ==
    /\ pc = "build"
    /\ steps' = steps \cup {"build_targets"}
    /\ LET build_targets == _generate_build_targets(files, flat, gtf_dirs)
       IN  IF build_targets.exc = ""
           THEN /\ targets' = Some(build_targets)
                /\ pc' = "run"
                /\ UNCHANGED error
           ELSE /\ pc' = "raised"
                /\ error' = Some([type |-> build_targets.exc, arg |-> <<>>])
                /\ UNCHANGED targets
    /\ UNCHANGED <<flat, run_commands>>
    /\ AggregateFrame

\* Lines 639-642
GenerateRunCommandsAndReturn ==
    /\ pc = "run"
    /\ steps' = steps \cup {"run_commands"}
    /\ \E orders \in FilterOrders(flat) :
           run_commands' = _generate_run_commands(flat, debug, orders)
    /\ pc' = "returned"
    /\ UNCHANGED <<flat, targets, error>>
    /\ AggregateFrame

Next ==
    \/ ForEachTest
    \/ FindTestByModuleName
    \/ FindTestByClassName
    \/ FindTestByIntegrationName
    \/ FindTestByPath
    \/ UnsupportedReference
    \/ RawInput
    \/ RawInputNotANumber
    \/ NoTestFound
    \/ FlattenByModule
    \/ GenerateBuildTargets
    \/ GenerateRunCommandsAndReturn

Spec == Init /\ [][Next]_vars

\* The input matches no integration config, no module of the index and no
\* class source file.
Unmatched(test) ==
    /\ ~HasSlash(test) /\ ~HasColon(test) /\ ~HasDot(test)
    /\ \A d \in 1..Len(integration_dirs) :
          /\ exists(files, join(root_dir, integration_dirs[d]))
          /\ FindIntegration(files, join(root_dir, integration_dirs[d]), test) = {}
    /\ test \notin DOMAIN module_info
    /\ ClassHits(files, test) = {}

\* translate raised while it looked up tests[idx].
FailedAtInput == pc = "raised" /\ steps = {} /\ idx <= Len(tests)

\* C3: for an input without '/', ':' or '.' that matches no integration
\* config, no module and no class file, translate resolves nothing and fails
\* with NoTestFoundError naming the input, and with no other error.
C3_NoTestFoundError ==
    /\ \A n \in 1..Len(test_infos) : ~Unmatched(tests[n])
    /\ (FailedAtInput /\ Unmatched(tests[idx])) =>
           error = Some([type |-> "NoTestFoundError", arg |-> tests[idx]])

\* The three aggregation steps of translate.
AllSteps == {"flatten", "build_targets", "run_commands"}

\* C6: translate resolves its inputs one at a time in input order; it
\* returns build targets and run commands only when every input resolved to
\* a descriptor; when an input fails it raises, no strategy having been
\* invoked for a later input and no aggregation step having been executed.
C6_AtomicInOrder ==
    /\ \A a, b \in 1..Len(calls) : a <= b => calls[a].input <= calls[b].input
    /\ \A a \in 1..Len(calls) : calls[a].input <= idx /\ calls[a].input <= Len(tests)
    /\ Len(test_infos) = idx - 1
    /\ \A n \in 1..Len(test_infos) : \E a \in 1..Len(calls) : calls[a].input = n
    /\ steps # {} => Len(test_infos) = Len(tests)
    /\ pc = "returned" =>
          /\ Len(test_infos) = Len(tests)
          /\ steps = AllSteps
          /\ targets # None /\ targets[1].exc = ""
          /\ Len(run_commands) = 1
          /\ error = None
    /\ pc # "returned" => run_commands = <<>>
    /\ (error # None) <=> (pc = "raised")
    /\ (pc = "raised" /\ idx <= Len(tests)) =>
          /\ steps = {}
          /\ flat = <<>> /\ targets = None /\ run_commands = <<>>
          /\ \A a \in 1..Len(calls) : calls[a].input <= idx

\* The second of three inputs failed after the first resolved: the third
\* was never looked up.
C6_Witness ==
    /\ pc = "raised"
    /\ Len(tests) = 3
    /\ idx = 2
    /\ Len(test_infos) = 1
    /\ calls # <<>> /\ calls[Len(calls)].input = 2
    /\ steps = {}

\* Three inputs resolved and translate returned.
C6_WitnessReturned ==
    pc = "returned" /\ Len(tests) = 3 /\ Len(test_infos) = 3

\* The class strategy has been called for tests[idx] and its search printed
\* more than one file.
ManyClassesFound ==
    /\ idx <= Len(tests)
    /\ calls # <<>>
    /\ calls[Len(calls)].input = idx
    /\ calls[Len(calls)].kind \in {"CLASS", "QUALIFIED_CLASS"}
    /\ Cardinality(ClassHits(files, tests[idx])) > 1

\* C7: when the class search returns more than one file, the class strategy
\* fails with TooManyTestsFoundError and does not wait for console input.
C7_TooManyTestsFound ==
    ManyClassesFound =>
        /\ pc # "raw_input"
        /\ pc = "raised"
        /\ error = Some([type |-> "TooManyTestsFoundError", arg |-> <<>>])

\* C11: an error raised inside a resolution strategy is never caught and
\* followed by the next candidate kind: every "unsupported reference"
\* warning of _get_test_info is for a kind without a registered strategy,
\* and a lookup that goes on to a next kind does so after a strategy that
\* returned None or after such a warning.
C11_StrategyErrorsPropagate ==
    \A w \in 1..Len(warnings) :
        /\ warnings[w].kind \notin SupportedTypes
        /\ \A c \in 1..Len(calls) : calls[c] # warnings[w]

\* The descriptor has rel_config set (not None), exactly one of module_name
\* and integrated_name set, and no filters beside an integration name.
WellFormed(info) ==
    /\ info.rel_config # None
    /\ (info.module_name # None) # (info.integrated_name # None)
    /\ info.integrated_name # None => info.filters = None

\* C13: every descriptor returned by a resolution strategy (they are
\* gathered in test_infos) and every descriptor output by _flatten_by_module
\* has rel_config set and exactly one of module_name / integrated_name set;
\* descriptors carrying an integration name have no filters.
C13_WellFormedDescriptors ==
    /\ \A n \in 1..Len(test_infos) : WellFormed(test_infos[n])
    /\ \A n \in 1..Len(flat) : WellFormed(flat[n])

\* The module, class and path strategies and the integration strategy have
\* each returned a descriptor.
C13_WitnessStrategies ==
    /\ \E c \in 1..Len(calls) : calls[c].kind = "FILE_PATH"
    /\ \E n \in 1..Len(test_infos) : test_infos[n].integrated_name # None
    /\ \E n \in 1..Len(test_infos) : test_infos[n].filters # None
    /\ Len(test_infos) = 3

\* translate returned, and the flattened list holds an integration
\* descriptor and a module descriptor with merged filters.
C13_Witness ==
    /\ pc = "returned"
    /\ Len(flat) < Len(test_infos)
    /\ \E n \in 1..Len(flat) : flat[n].integrated_name # None
    /\ \E n \in 1..Len(flat) :
           flat[n].module_name # None /\ flat[n].filters # None

=============================================================================
